---- MODULE Spec2Model ----
(***************************************************************************)
(* The order-processing pipeline of the Squarespace invoice generator:     *)
(* the polling cycle of the order tracker (processOrders), the order       *)
(* source with its retry loop (getNewOrders), the invoice renderer         *)
(* (generateInvoice / prepareInvoiceData), the print dispatcher            *)
(* (printFile) and the processed-orders ledger (getProcessedOrders /       *)
(* saveProcessedOrders).                                                   *)
(*                                                                         *)
(* Spec runs one cycle at a time: a cron tick (or the startup run) that    *)
(* finds no cycle in progress starts one.  A cycle is the load of the      *)
(* ledger, the attempts of the fetch, and one step per fetched order that  *)
(* covers the order's whole sub-sequence; the steps of a sub-sequence are  *)
(* recorded in `done` in the order the code performs them.                 *)
(*                                                                         *)
(* SpecCrash adds the ways the process can end during a cycle (a signal    *)
(* between two steps or during the ledger write, an uncaught exception)    *)
(* and a ledger file found damaged at the start.  SpecOverlap adds a       *)
(* second invocation of processOrders that runs while the first one does.  *)
(* SpecAux adds the scheduled report and clean-up tasks, SpecFetch runs    *)
(* the cycle with retry budgets large enough for the back-off to reach     *)
(* its cap, and SpecUnit calls the renderer and the print dispatcher       *)
(* directly on single orders, paths and configurations.  SpecSched runs    *)
(* start() and stop() with the cron job and the startup timeout against a  *)
(* clock, SpecDigest adds the digests, SpecReadError a load of the ledger  *)
(* that fails, SpecNoted notes the alerts and notifications emitted, and   *)
(* SpecClassify widens the failures of a fetch attempt.                    *)
(***************************************************************************)
EXTENDS Integers, Sequences, FiniteSets, TLC

(***************************************************************************)
(* Bounds of the model.                                                    *)
(***************************************************************************)
MaxCycles == 3
MaxRetriesCfg == 3
MaxRetriesFetch == 5

(***************************************************************************)
(* Orders as the remote API returns them.  orderNumber "" stands for a     *)
(* missing (falsy) orderNumber; hasLineItems = FALSE for a record without  *)
(* a lineItems array; isNull for a null entry of the result array.         *)
(***************************************************************************)
Item(q, p) == [quantity |-> q, unitPrice |-> p]

Order(n, has, items) ==
    [orderNumber |-> n, hasLineItems |-> has, lineItems |-> items, isNull |-> FALSE]

OrderA == Order("A", TRUE, <<Item(1, 2)>>)
OrderB == Order("B", TRUE, <<Item(2, 3), Item(1, 0)>>)
OrderC == Order("C", TRUE, <<Item(1, 1)>>)
OrderE == Order("E", TRUE, <<>>)
OrderM == Order("M", FALSE, <<>>)
OrderN == Order("N", TRUE, <<Item(1, -5)>>)
OrderQ == Order("Q", TRUE, <<Item(-2, 4)>>)
NoIdOrder == Order("", TRUE, <<Item(1, 2)>>)
NullOrder == [orderNumber |-> "", hasLineItems |-> FALSE, lineItems |-> <<>>, isNull |-> TRUE]

(* The bodies of a 2xx response of GET /commerce/orders, as arrays, grouped
   by the remote account that answers with them: an account whose orders are
   well-formed, one that returns malformed records, and one with negative
   amounts. *)
Remotes ==
    { { <<>>, <<OrderA>>, <<OrderA, OrderA>>, <<OrderA, OrderB, OrderC>> },
      { <<NoIdOrder, OrderA>>, <<NullOrder, OrderB>>, <<OrderE, OrderA>>, <<OrderM>> },
      { <<OrderN, OrderQ>>, <<OrderQ, OrderA>> } }

(* The ways one request can fail: an HTTP status, or an error code. *)
FetchFailures == {"401", "403", "404", "400", "503", "ECONNABORTED"}

(* What the rendering backend does for one generateInvoice call. *)
RenderEnv == {"ok", "template", "backend", "partial", "empty"}

(* What the print subsystem does for one print() call. *)
PrintEnv == {"ok", "error"}

(***************************************************************************)
(* The configuration snapshot (config/app).  maxRetries is the parsed     *)
(* MAX_RETRIES; smtpUser / notificationEmail say whether the variable is   *)
(* set; vatRate is in percent.                                             *)
(***************************************************************************)
Config(m, print, user, email) ==
    [ maxRetries |-> m, autoPrint |-> print, smtpUser |-> user,
      notificationEmail |-> email, soundAlertEnabled |-> TRUE, vatRate |-> 24 ]

(* getNewOrders reads maxRetries only and the loop over the orders reads the
   flags only: the retry budget is varied with the flags set, and the flags
   are varied with the default budget. *)
Configs ==
    { Config(m, TRUE, TRUE, TRUE) : m \in 0..MaxRetriesCfg }
    \cup { Config(3, print, user, email) : print \in BOOLEAN, user \in BOOLEAN, email \in BOOLEAN }

VARIABLES
    config,           \* the immutable configuration snapshot
    remote,           \* the response bodies the remote account answers with
    ledgerFile,       \* data/processed-orders.json: [kind, data]
    pdfFiles,         \* order numbers with a non-empty generated-invoices/invoice-<n>.pdf
    pc,               \* "idle" | "fetch" | "fetched" | "process"
    cycles,           \* number of cycles started
    processedOrders,  \* the cycle's in-memory array of processed order numbers
    loaded,           \* the array getProcessedOrders returned at the start of the cycle
    retries,          \* getNewOrders: retries
    attempts,         \* getNewOrders: requests made in this cycle
    only503,          \* getNewOrders: every failed attempt so far returned 503
    delays,           \* getNewOrders: the backoff delays waited in this cycle
    lastFailure,      \* getNewOrders: the error of the last attempt, "" when it succeeded,
                      \* "non-array body" when the body of the response was not an array
    response,         \* getNewOrders: the array of the 2xx response body (orders)
    newOrders,        \* the array getNewOrders returned
    idx,              \* position of the next order of newOrders (1-based)
    done,             \* per handled position of this cycle: [order, steps]
    wrote,            \* this cycle rewrote the ledger file
    rendered,         \* order numbers for which generateInvoice has returned a path
    committed,        \* order numbers whose saveProcessedOrders write has completed
    torn,             \* a ledger write has been cut short by the end of the process
    lastExit,         \* how the process ended since the last tick: "", "signal",
                      \* "signal in commit", "uncaught"
    rivalPc,          \* a second invocation of processOrders: "idle" or "running"
    rivalOrders,      \* the processedOrders array of the second invocation
    reports,          \* the files of the reports directory
    unit,             \* the last direct call of a function: its input and its result
    sched,            \* the scheduler of start(): the cron job, the startup timeout, the clock
    emitted           \* the order numbers alerted and notified so far, where they are noted

vars == << config, remote, ledgerFile, pdfFiles, pc, cycles, processedOrders, loaded,
           retries, attempts, only503, delays, lastFailure, response, newOrders,
           idx, done, wrote, rendered, committed, torn, lastExit, rivalPc,
           rivalOrders, reports, unit, sched, emitted >>

(***************************************************************************)
(* Helpers.                                                                *)
(***************************************************************************)
Range(s) == { s[k] : k \in 1..Len(s) }

(* Array.prototype.includes; the variant never finds the element. *)
IncludesNever(s, x) == FALSE

Includes(s, x) == x \in Range(s)

Min(a, b) == IF a <= b THEN a ELSE b

RECURSIVE Pow2(_)
Pow2(n) == IF n <= 0 THEN 1 ELSE 2 * Pow2(n - 1)

RECURSIVE SumSeq(_)
SumSeq(s) == IF s = <<>> THEN 0 ELSE Head(s) + SumSeq(Tail(s))

FileArray(data) == [kind |-> "array", data |-> data]
FileMissing == [kind |-> "missing", data |-> <<>>]

(* a file that cannot be read or is not valid JSON *)
FileCorrupt == [kind |-> "corrupt", data |-> <<>>]

(* a file that holds valid JSON that is not an array *)
FileNonArray == [kind |-> "nonarray", data |-> <<>>]

(***************************************************************************)
(* order-tracker: the ledger.                                              *)
(***************************************************************************)

(* getProcessedOrders: the array it returns for a ledger file. *)
getProcessedOrders(file) ==
    IF file.kind = "array" THEN file.data ELSE <<>>

(* variant: the absent file is not created *)
getProcessedOrdersFileKept(file) == file

(* getProcessedOrders: the ledger file it leaves (created when absent). *)
getProcessedOrdersFile(file) ==
    IF file.kind = "missing" THEN FileArray(<<>>) ELSE file

(* saveProcessedOrders: the ledger file after the call; the write error is
   caught and logged, so the caller sees no difference. *)
saveProcessedOrders(file, orders, writeOk) ==
    IF writeOk THEN FileArray(orders) ELSE file

(***************************************************************************)
(* squarespace-api: getNewOrders.                                          *)
(***************************************************************************)

(* const maxRetries = config.maxRetries || 3 *)
maxRetries(c) == IF c.maxRetries = 0 THEN 3 ELSE c.maxRetries

(* variant: the response array is returned unfiltered *)
validOrdersUnfiltered(orders) == orders

(* the filter of the response array: records without orderNumber dropped *)
validOrders(orders) ==
    SelectSeq(orders, LAMBDA o : ~(o.isNull \/ o.orderNumber = ""))

(* variant: 404 is not among the statuses that break out of the loop *)
NonRetryableNo404(failure) == failure \in {"401", "403"}

(* the statuses on which the catch block breaks out of the loop *)
NonRetryable(failure) == failure \in {"401", "403", "404"}

(* variant: the delay is not capped *)
backoffDelayUncapped(r) == 1000 * Pow2(r)

(* Math.min(1000 * Math.pow(2, retries), 10000) *)
backoffDelay(r) == Min(1000 * Pow2(r), 10000)

(***************************************************************************)
(* invoice-generator.                                                      *)
(***************************************************************************)

(* prepareInvoiceData: one line item; amounts in hundredths where VAT is
   involved (vat_amount and total_amount are times 100). *)
prepareItem(item, c) ==
    LET quantity == IF item.quantity = 0 THEN 1 ELSE item.quantity
        unitPrice == item.unitPrice
        netAmount == unitPrice * quantity
        rate == IF c.vatRate = 0 THEN 24 ELSE c.vatRate
        vatAmount == netAmount * rate
    IN  [ quantity |-> quantity, price |-> unitPrice, net_amount |-> netAmount,
          vat_amount |-> vatAmount, total_amount |-> netAmount * 100 + vatAmount ]

(* prepareInvoiceData: throws only when the lineItems array is missing. *)
prepareInvoiceData(order, c) ==
    IF ~order.hasLineItems
    THEN [threw |-> TRUE, items |-> <<>>, NET_TOTAL |-> 0, VAT_TOTAL |-> 0,
          GRAND_TOTAL |-> 0]
    ELSE LET items == [k \in 1..Len(order.lineItems) |-> prepareItem(order.lineItems[k], c)]
             netTotal == SumSeq([k \in 1..Len(items) |-> items[k].net_amount])
             vatTotal == SumSeq([k \in 1..Len(items) |-> items[k].vat_amount])
         IN  [ threw |-> FALSE, items |-> items, NET_TOTAL |-> netTotal,
               VAT_TOTAL |-> vatTotal, GRAND_TOTAL |-> netTotal * 100 + vatTotal ]

(* What is at the path invoice-<orderNumber>.pdf: no file, a zero-byte
   file, a truncated file, a complete PDF. *)
PathStates == {"absent", "empty", "partial", "full"}

(* variant: the catch block does not remove the file *)
cleanupNone(state) == state

(* the catch block of generateInvoice: the file at the path is removed when
   it exists *)
cleanup(state) == "absent"

(* The part of generateInvoice from populateTemplate on, for the path of one
   order: whether a path is returned, and what is at the path afterwards.
   env is what the template and the rendering backend do: the template
   cannot be read ("template", thrown before the try block), the browser
   fails before anything is written ("backend"), page.pdf throws after
   writing a part of the file ("partial"), page.pdf writes a zero-byte file
   ("empty", caught by the size test), or all goes well ("ok"). *)
renderPath(before, env) ==
    IF env = "template" THEN [ok |-> FALSE, after |-> before]
    ELSE IF env = "backend" THEN [ok |-> FALSE, after |-> cleanup(before)]
    ELSE IF env = "partial" THEN [ok |-> FALSE, after |-> cleanup("partial")]
    ELSE IF env = "empty" THEN [ok |-> FALSE, after |-> cleanup("empty")]
    ELSE [ok |-> TRUE, after |-> "full"]

(* generateInvoice for one order, with the state of the order's path. *)
generateInvoiceAt(order, c, env, before) ==
    IF order.isNull \/ order.orderNumber = ""
    THEN [ok |-> FALSE, after |-> before]
    ELSE IF ~order.hasLineItems \/ Len(order.lineItems) = 0
    THEN [ok |-> FALSE, after |-> before]
    ELSE IF prepareInvoiceData(order, c).threw
    THEN [ok |-> FALSE, after |-> before]
    ELSE renderPath(before, env)

(* generateInvoice: whether it returns a path, and the artifacts on disk
   afterwards (the order numbers whose path holds a file). *)
generateInvoice(order, c, env, files) ==
    LET before == IF order.orderNumber \in files THEN "full" ELSE "absent"
        r == generateInvoiceAt(order, c, env, before)
    IN  [ ok |-> r.ok,
          files |-> IF r.after = "absent"
                    THEN files \ {order.orderNumber}
                    ELSE files \cup {order.orderNumber} ]

(***************************************************************************)
(* printer-service: printFile.  "skipped" when auto-print is off, "ok"     *)
(* when the job was submitted, "threw" when the error is re-thrown.  The   *)
(* caller tests config.autoPrint as well before it calls printFile.        *)
(***************************************************************************)
(* variant: the size of the file is not looked at *)
printFileAtUnsized(c, env, state) ==
    IF ~c.autoPrint THEN [result |-> "skipped", invoked |-> FALSE]
    ELSE IF state = "absent" THEN [result |-> "threw", invoked |-> FALSE]
    ELSE IF env = "error" THEN [result |-> "threw", invoked |-> TRUE]
    ELSE [result |-> "ok", invoked |-> TRUE]

(* printFile for a path in the given state: the result, and whether print()
   of pdf-to-printer was called. *)
printFileAt(c, env, state) ==
    IF ~c.autoPrint THEN [result |-> "skipped", invoked |-> FALSE]
    ELSE IF state = "absent" THEN [result |-> "threw", invoked |-> FALSE]
    ELSE IF state = "empty" THEN [result |-> "threw", invoked |-> FALSE]
    ELSE IF env = "error" THEN [result |-> "threw", invoked |-> TRUE]
    ELSE [result |-> "ok", invoked |-> TRUE]

(* variant: the auto-print switch is not looked at *)
printFileUnguarded(n, c, env, files) ==
    IF n \notin files THEN "threw"
    ELSE IF env = "error" THEN "threw"
    ELSE "ok"

(* printFile in the pipeline: the path holds the file generateInvoice has
   just verified, or nothing. *)
printFile(n, c, env, files) ==
    printFileAt(c, env, IF n \in files THEN "full" ELSE "absent").result

(***************************************************************************)
(* order-tracker: the sub-sequence of processOrders for one order of the   *)
(* batch.  The result holds the steps performed, in order, the in-memory   *)
(* array, the ledger file and the artifacts afterwards.                    *)
(***************************************************************************)
(* variant: the catch block only logs *)
catchStepsLogOnly(c) == <<"failed">>

catchSteps(c) ==
    IF c.smtpUser /\ c.notificationEmail THEN <<"failed", "email">> ELSE <<"failed">>

(* variant: the render is started before the alert and the notification *)
preStepsRenderFirst(c) ==
    <<"render">> \o (IF c.soundAlertEnabled THEN <<"alert">> ELSE <<>>) \o <<"notify">>

(* the calls of the try block up to the call of generateInvoice: the sound
   alert (a no-op when disabled), the desktop notification, the render *)
preSteps(c) ==
    (IF c.soundAlertEnabled THEN <<"alert">> ELSE <<>>) \o <<"notify", "render">>

(* variant: generateInvoice is called without await, the loop goes on to the
   next order while the render is pending *)
processOrderUnawaited(order, c, processed, file, files, renv, penv, writeOk) ==
    [ steps |-> preSteps(c), processed |-> processed, file |-> file,
      files |-> files, wrote |-> FALSE, rendered |-> FALSE, threw |-> FALSE ]

processOrder(order, c, processed, file, files, renv, penv, writeOk) ==
    LET unchanged(steps, fs) ==
            [ steps |-> steps, processed |-> processed, file |-> file,
              files |-> fs, wrote |-> FALSE, rendered |-> FALSE, threw |-> FALSE ]
    IN
    IF order.isNull \/ order.orderNumber = ""
    THEN unchanged(<<"invalid">>, files)
    ELSE IF Includes(processed, order.orderNumber)
    THEN unchanged(<<"seen">>, files)
    ELSE
      LET pre == preSteps(c)
          g == generateInvoice(order, c, renv, files)
          pr == printFile(order.orderNumber, c, penv, g.files)
          printSteps == IF pr = "skipped" THEN <<>>
                        ELSE IF pr = "ok" THEN <<"print", "printed">>
                        ELSE <<"print">>
          pushed == Append(processed, order.orderNumber)
      IN
      IF ~g.ok
      THEN [ unchanged(pre \o catchSteps(c), g.files) EXCEPT !.threw = TRUE ]
      ELSE IF pr = "threw"
      THEN [ unchanged(pre \o <<"rendered">> \o printSteps \o catchSteps(c), g.files)
               EXCEPT !.rendered = TRUE, !.threw = TRUE ]
      ELSE [ steps |-> pre \o <<"rendered">> \o printSteps \o <<"push", "save">>
                       \o (IF writeOk THEN <<"saved">> ELSE <<>>) \o <<"success">>,
             processed |-> pushed,
             file |-> saveProcessedOrders(file, pushed, writeOk),
             files |-> g.files,
             wrote |-> writeOk,
             rendered |-> TRUE,
             threw |-> FALSE ]

(* variant: no try/catch inside the loop, a throw ends the cycle *)
afterOrderPropagating(threw, i, n) == IF threw \/ i + 1 > n THEN "idle" ELSE "process"

(* The try/catch inside the for loop: whether or not the sub-sequence of the
   order at position i threw, the loop goes on to position i + 1 of n. *)
afterOrder(threw, i, n) == IF i + 1 > n THEN "idle" ELSE "process"

(***************************************************************************)
(* The state machine.                                                      *)
(***************************************************************************)
(* the wall-clock minute at which the process is started (hh:55) *)
StartMinute == 55

(* The module state of order-tracker and the bookkeeping of a fresh process. *)
InitCycle ==
    /\ pdfFiles = {}
    /\ pc = "idle"
    /\ cycles = 0
    /\ processedOrders = <<>>
    /\ loaded = <<>>
    /\ retries = 0
    /\ attempts = 0
    /\ only503 = TRUE
    /\ delays = <<>>
    /\ lastFailure = ""
    /\ response = <<>>
    /\ newOrders = <<>>
    /\ idx = 1
    /\ done = <<>>
    /\ wrote = FALSE
    /\ rendered = {}
    /\ committed = {}
    /\ torn = FALSE
    /\ lastExit = ""
    /\ rivalPc = "idle"
    /\ rivalOrders = <<>>
    /\ reports = {}
    /\ unit = [fn |-> "none"]
    /\ emitted = [alert |-> {}, notify |-> {}]

(* The module state of order-tracker once start() has scheduled the jobs
   under the default polling interval. *)
InitProcess ==
    /\ InitCycle
    /\ sched = [ env |-> [set |-> FALSE, value |-> 0], phase |-> "running",
                 exitCode |-> -1, interval |-> 5, cronJob |-> TRUE,
                 startup |-> "ran", startupAt |-> StartMinute, now |-> StartMinute,
                 fires |-> <<>>, stopped |-> FALSE ]

(* The first start of the service: there is no ledger file yet. *)
Init ==
    /\ config \in Configs
    /\ remote \in Remotes
    /\ ledgerFile = FileMissing
    /\ InitProcess

(* The entry of processOrders: getProcessedOrders returns `array` and
   leaves the ledger file `file`, and getNewOrders is entered. *)
processOrdersEntryWith(array, file) ==
    /\ pc = "idle"
    /\ cycles < MaxCycles
    /\ cycles' = cycles + 1
    /\ processedOrders' = array
    /\ loaded' = array
    /\ ledgerFile' = file
    /\ retries' = 0
    /\ attempts' = 0
    /\ only503' = TRUE
    /\ delays' = <<>>
    /\ lastFailure' = ""
    /\ response' = <<>>
    /\ newOrders' = <<>>
    /\ idx' = 1
    /\ done' = <<>>
    /\ wrote' = FALSE
    /\ pc' = "fetch"
    /\ lastExit' = ""
    /\ UNCHANGED << reports, unit, emitted, config, remote, pdfFiles, rendered, committed, torn, rivalPc,
                    rivalOrders >>

(* The entry of processOrders when the ledger file can be read. *)
processOrdersEntry ==
    processOrdersEntryWith(getProcessedOrders(ledgerFile),
                           getProcessedOrdersFile(ledgerFile))

(* A cron tick or the startup run starts processOrders. *)
Tick ==
    /\ processOrdersEntry
    /\ UNCHANGED sched

(* getNewOrders returns `result`. *)
Return(result) ==
    /\ newOrders' = result
    /\ idx' = 1
    /\ pc' = "fetched"

(* One iteration of the while loop of getNewOrders: the request succeeds. *)
FetchOk ==
    /\ pc = "fetch"
    /\ retries <= maxRetries(config)
    /\ \E body \in remote :
          /\ attempts' = attempts + 1
          /\ response' = body
          /\ lastFailure' = ""
          /\ Return(validOrders(body))
    /\ UNCHANGED << sched, reports, unit, emitted, config, remote, ledgerFile, pdfFiles, cycles, processedOrders, loaded,
                    retries, only503, delays, done, wrote, rendered, committed, torn,
                    lastExit, rivalPc, rivalOrders >>

(* The catch block of getNewOrders for an attempt that fails with the given
   error. *)
FetchFailWith(failure) ==
    /\ attempts' = attempts + 1
    /\ retries' = retries + 1
    /\ only503' = (only503 /\ failure = "503")
    /\ lastFailure' = failure
    /\ IF NonRetryable(failure)
       THEN /\ delays' = delays
            /\ Return(<<>>)
       ELSE IF retries + 1 <= maxRetries(config)
       THEN /\ delays' = Append(delays, backoffDelay(retries + 1))
            /\ UNCHANGED << newOrders, idx, pc >>
       ELSE /\ delays' = delays
            /\ Return(<<>>)
    /\ UNCHANGED << sched, reports, unit, emitted, config, remote, ledgerFile,
                    pdfFiles, cycles, processedOrders, loaded, response, done,
                    wrote, rendered, committed, torn, lastExit, rivalPc,
                    rivalOrders >>

(* One iteration of the while loop of getNewOrders: the request fails. *)
FetchFail ==
    /\ pc = "fetch"
    /\ retries <= maxRetries(config)
    /\ \E failure \in FetchFailures : FetchFailWith(failure)

(* variant: the empty-array check is missing *)
afterFetchUnchecked(orders) == "process"

(* if (!newOrders || newOrders.length === 0) return; *)
afterFetch(orders) == IF Len(orders) = 0 THEN "idle" ELSE "process"

(* processOrders resumes with the array getNewOrders returned, and returns
   at once when the array is empty. *)
Resume ==
    /\ pc = "fetched"
    /\ retries' = 0
    /\ attempts' = 0
    /\ only503' = TRUE
    /\ delays' = <<>>
    /\ pc' = afterFetch(newOrders)
    /\ UNCHANGED << sched, reports, unit, emitted, config, remote, ledgerFile, pdfFiles, cycles, processedOrders, loaded,
                    lastFailure, response, newOrders, idx, done, wrote, rendered,
                    committed, torn, lastExit, rivalPc, rivalOrders >>

(* One iteration of the for loop of processOrders: the whole sub-sequence
   of the order at position idx. *)
ProcessOrderStep ==
    /\ pc = "process"
    /\ idx <= Len(newOrders)
    /\ \E renv \in RenderEnv, penv \in PrintEnv, writeOk \in BOOLEAN :
          LET order == newOrders[idx]
              r == processOrder(order, config, processedOrders, ledgerFile,
                                pdfFiles, renv, penv, writeOk)
          IN  /\ processedOrders' = r.processed
              /\ ledgerFile' = r.file
              /\ pdfFiles' = r.files
              /\ wrote' = (wrote \/ r.wrote)
              /\ done' = Append(done, [order |-> order, steps |-> r.steps])
              /\ rendered' = IF r.rendered
                             THEN rendered \cup {order.orderNumber}
                             ELSE rendered
              /\ committed' = IF r.wrote
                              THEN committed \cup {order.orderNumber}
                              ELSE committed
              /\ pc' = afterOrder(r.threw, idx, Len(newOrders))
    /\ idx' = idx + 1
    /\ UNCHANGED << sched, reports, unit, config, remote, cycles, loaded, retries, attempts, only503, delays,
                    lastFailure, response, newOrders, torn, lastExit, rivalPc,
                    rivalOrders >>

ProcessOrder ==
    /\ ProcessOrderStep
    /\ UNCHANGED emitted

(* The process ends and the process manager starts it again (autorestart):
   the module state of the new process is the initial one; the files stay. *)
Restarted ==
    /\ pc' = "idle"
    /\ processedOrders' = <<>>
    /\ loaded' = <<>>
    /\ retries' = 0
    /\ attempts' = 0
    /\ only503' = TRUE
    /\ delays' = <<>>
    /\ lastFailure' = ""
    /\ response' = <<>>
    /\ newOrders' = <<>>
    /\ idx' = 1
    /\ done' = <<>>
    /\ wrote' = FALSE
    /\ rivalPc' = "idle"
    /\ rivalOrders' = <<>>
    /\ UNCHANGED << sched, reports, unit, emitted, config, remote, cycles >>

(* SIGTERM or SIGINT while a cycle is between two steps: the handler calls
   process.exit(0) at once. *)
Shutdown ==
    /\ pc \in {"fetch", "fetched", "process"}
    /\ lastExit' = "signal"
    /\ Restarted
    /\ UNCHANGED << ledgerFile, pdfFiles, rendered, committed, torn >>

(* SIGTERM or SIGINT while the writeJson of saveProcessedOrders is in
   flight: the sub-sequence of the order at position idx has run up to the
   push, the ledger file has been truncated for writing and the process
   exits before the new content is complete. *)
ShutdownInCommit ==
    /\ pc = "process"
    /\ idx <= Len(newOrders)
    /\ \E renv \in RenderEnv, penv \in PrintEnv :
          LET order == newOrders[idx]
              r == processOrder(order, config, processedOrders, ledgerFile,
                                pdfFiles, renv, penv, TRUE)
          IN  /\ "save" \in Range(r.steps)
              /\ ledgerFile' = FileCorrupt
              /\ pdfFiles' = r.files
              /\ rendered' = rendered \cup {order.orderNumber}
    /\ torn' = TRUE
    /\ lastExit' = "signal in commit"
    /\ Restarted
    /\ UNCHANGED committed

(* The spawn of the alert sound fails (no powershell on the host): the child
   process object emits 'error', nothing listens to it, and the
   uncaughtException handler calls process.exit(1).  The event is emitted
   once playNewOrderAlert has returned, before the next step of the order. *)
AlertCrash ==
    /\ pc = "process"
    /\ idx <= Len(newOrders)
    /\ LET order == newOrders[idx]
           r == processOrder(order, config, processedOrders, ledgerFile,
                             pdfFiles, "ok", "ok", TRUE)
       IN  r.steps[1] = "alert"
    /\ lastExit' = "uncaught"
    /\ Restarted
    /\ UNCHANGED << ledgerFile, pdfFiles, rendered, committed, torn >>

Next == Tick \/ FetchOk \/ FetchFail \/ Resume \/ ProcessOrder

Spec == Init /\ [][Next]_vars

(* The service under a process manager, with the ways the process can end
   during a cycle; every feature of the configuration is switched on, and
   the ledger file found at the start may be one that an earlier process
   left damaged. *)
InitCrash ==
    /\ config = Config(3, TRUE, TRUE, TRUE)
    /\ remote \in Remotes
    /\ ledgerFile \in {FileMissing, FileCorrupt, FileNonArray}
    /\ InitProcess

NextCrash == Next \/ Shutdown \/ ShutdownInCommit \/ AlertCrash

SpecCrash == InitCrash /\ [][NextCrash]_vars

(* The service with retry budgets large enough for the backoff delay to
   reach its cap. *)
InitFetch ==
    /\ config \in { Config(m, TRUE, TRUE, TRUE) : m \in 0..MaxRetriesFetch }
    /\ remote = { <<>>, <<OrderA>> }
    /\ ledgerFile = FileMissing
    /\ InitProcess

SpecFetch == InitFetch /\ [][Next]_vars

(* The failures of FetchFailures and further ones: HTTP 429 and 500, a DNS
   or connection error, a 2xx response without a body (the try block throws
   'Invalid API response - no data'). *)
FetchFailuresWide ==
    FetchFailures \cup {"429", "500", "ENOTFOUND", "ECONNREFUSED", "no data"}

FetchFailWide ==
    /\ pc = "fetch"
    /\ retries <= maxRetries(config)
    /\ \E failure \in FetchFailuresWide : FetchFailWith(failure)

(* One iteration of the while loop of getNewOrders: the 2xx response has a
   body that is not an array (an object without `result`): the function
   returns [] from the try block. *)
FetchNonArray ==
    /\ pc = "fetch"
    /\ retries <= maxRetries(config)
    /\ attempts' = attempts + 1
    /\ response' = <<>>
    /\ lastFailure' = "non-array body"
    /\ Return(<<>>)
    /\ UNCHANGED << sched, reports, unit, emitted, config, remote, ledgerFile, pdfFiles,
                    cycles, processedOrders, loaded, retries, only503, delays, done,
                    wrote, rendered, committed, torn, lastExit, rivalPc, rivalOrders >>

NextClassify == Tick \/ FetchOk \/ FetchFailWide \/ FetchNonArray \/ Resume \/ ProcessOrder

SpecClassify == InitFetch /\ [][NextClassify]_vars

(***************************************************************************)
(* Two invocations of processOrders at once.  The cron callback and the   *)
(* startup timeout call processOrders without looking at whether an       *)
(* earlier call has returned; the second invocation has its own           *)
(* processedOrders array and shares the files.                            *)
(***************************************************************************)

(* the main state of the first invocation is left alone *)
FirstUnchanged ==
    UNCHANGED << sched, reports, unit, emitted, config, remote, pc, processedOrders, loaded, retries, attempts,
                 only503, delays, lastFailure, response, newOrders, idx, done,
                 wrote, torn, lastExit >>

(* A tick fires and starts the second invocation, whatever the first one is
   doing: the ledger is loaded. *)
RivalTick ==
    /\ rivalPc = "idle"
    /\ cycles < MaxCycles
    /\ cycles' = cycles + 1
    /\ rivalOrders' = getProcessedOrders(ledgerFile)
    /\ ledgerFile' = getProcessedOrdersFile(ledgerFile)
    /\ rivalPc' = "running"
    /\ FirstUnchanged
    /\ UNCHANGED << pdfFiles, rendered, committed >>

(* The second invocation runs the sub-sequence of one order of its fetch. *)
RivalOrder ==
    /\ rivalPc = "running"
    /\ \E body \in remote, renv \in RenderEnv, penv \in PrintEnv, writeOk \in BOOLEAN :
       \E k \in 1..Len(validOrders(body)) :
          LET order == validOrders(body)[k]
              r == processOrder(order, config, rivalOrders, ledgerFile,
                                pdfFiles, renv, penv, writeOk)
          IN  /\ rivalOrders' = r.processed
              /\ ledgerFile' = r.file
              /\ pdfFiles' = r.files
              /\ rendered' = IF r.rendered
                             THEN rendered \cup {order.orderNumber}
                             ELSE rendered
              /\ committed' = IF r.wrote
                              THEN committed \cup {order.orderNumber}
                              ELSE committed
    /\ FirstUnchanged
    /\ UNCHANGED << cycles, rivalPc >>

(* The second invocation returns. *)
RivalReturn ==
    /\ rivalPc = "running"
    /\ rivalPc' = "idle"
    /\ rivalOrders' = <<>>
    /\ FirstUnchanged
    /\ UNCHANGED << cycles, ledgerFile, pdfFiles, rendered, committed >>

(* an account with two orders, of which the second arrives later *)
RemoteOverlap == { <<OrderA>>, <<OrderA, OrderB>> }

InitOverlap ==
    /\ config = Config(1, TRUE, TRUE, TRUE)
    /\ remote = RemoteOverlap
    /\ ledgerFile = FileMissing
    /\ InitProcess

NextOverlap == Next \/ RivalTick \/ RivalOrder \/ RivalReturn

SpecOverlap == InitOverlap /\ [][NextOverlap]_vars

(***************************************************************************)
(* A load of the ledger that fails on an intact file.                      *)
(***************************************************************************)
(* A tick starts processOrders and the readFile of getProcessedOrders fails
   although the ledger file is intact (the file is locked by another
   program, no file handle is left): the catch block logs and returns []. *)
TickReadError ==
    /\ ledgerFile.kind = "array"
    /\ processOrdersEntryWith(<<>>, ledgerFile)
    /\ UNCHANGED sched

NextReadError == Next \/ TickReadError

SpecReadError == InitOverlap /\ [][NextReadError]_vars

(***************************************************************************)
(* The cycles with the emitted alerts and notifications noted: the order   *)
(* numbers for which playNewOrderAlert and showNewOrderNotification have   *)
(* been called since the start.                                            *)
(***************************************************************************)
ProcessOrderNoted ==
    /\ ProcessOrderStep
    /\ LET rec == done'[Len(done')]
           n == rec.order.orderNumber
       IN  emitted' =
             [ alert |-> IF "alert" \in Range(rec.steps)
                         THEN emitted.alert \cup {n} ELSE emitted.alert,
               notify |-> IF "notify" \in Range(rec.steps)
                          THEN emitted.notify \cup {n} ELSE emitted.notify ]

InitNoted ==
    /\ config \in { Config(1, print, TRUE, TRUE) : print \in BOOLEAN }
    /\ remote = RemoteOverlap
    /\ ledgerFile = FileMissing
    /\ InitProcess

NextNoted == Tick \/ FetchOk \/ FetchFail \/ Resume \/ ProcessOrderNoted

SpecNoted == InitNoted /\ [][NextNoted]_vars

(***************************************************************************)
(* The auxiliary scheduled tasks of start: the daily digest, the weekly    *)
(* digest and the monthly cleanup of the reports directory.  They read     *)
(* logs/app.log and the reports directory and write the reports directory. *)
(***************************************************************************)

(* variant: the cleanup empties the data directory as well *)
AuxFrameClobber ==
    /\ ledgerFile' = FileMissing
    /\ UNCHANGED << sched, unit, emitted, config, remote, pdfFiles, pc, cycles, processedOrders,
                    loaded, retries, attempts, only503, delays, lastFailure, response,
                    newOrders, idx, done, wrote, rendered, committed, torn, lastExit,
                    rivalPc, rivalOrders >>

(* what the report tasks leave alone: everything but the reports directory *)
AuxFrame ==
    UNCHANGED << sched, unit, emitted, config, remote, ledgerFile, pdfFiles, pc, cycles,
                 processedOrders, loaded, retries, attempts, only503, delays,
                 lastFailure, response, newOrders, idx, done, wrote, rendered,
                 committed, torn, lastExit, rivalPc, rivalOrders >>

(* generateDailyReport: reads the log, writes reports/daily-<date>.json. *)
DailyReport ==
    /\ reports' = reports \cup {"daily"}
    /\ AuxFrame

(* generateWeeklyReport: reads the daily reports, writes
   reports/weekly-<date>.json. *)
WeeklyReport ==
    /\ reports' = reports \cup {"weekly"}
    /\ AuxFrame

(* cleanupOldReports: removes the report files older than the cutoff. *)
CleanupReports ==
    /\ \E old \in SUBSET reports :
          /\ old # {}
          /\ reports' = reports \ old
    /\ AuxFrame

(***************************************************************************)
(* Direct calls of the exported functions generateInvoice, printFile and   *)
(* prepareInvoiceData, with inputs the pipeline does not produce in every  *)
(* combination.                                                            *)
(***************************************************************************)
UnitOrders ==
    {OrderA, OrderB, OrderC, OrderE, OrderM, OrderN, OrderQ, NoIdOrder, NullOrder}

(* VAT_RATE in percent *)
UnitRates == {0, 13, 24, 100}

UnitFrame ==
    UNCHANGED << sched, reports, emitted, config, remote, ledgerFile, pdfFiles, pc, cycles,
                 processedOrders, loaded, retries, attempts, only503, delays,
                 lastFailure, response, newOrders, idx, done, wrote, rendered,
                 committed, torn, lastExit, rivalPc, rivalOrders >>

(* generateInvoice(order) with the order's path absent or holding the
   invoice of an earlier run. *)
CallGenerateInvoice ==
    /\ \E order \in UnitOrders, before \in {"absent", "full"}, env \in RenderEnv :
          LET r == generateInvoiceAt(order, config, env, before)
          IN  unit' = [ fn |-> "generateInvoice", order |-> order, before |-> before,
                        env |-> env, ok |-> r.ok, after |-> r.after ]
    /\ UnitFrame

(* printFile(filePath) for a path in any state. *)
CallPrintFile ==
    /\ \E state \in PathStates, auto \in BOOLEAN, env \in PrintEnv :
          LET r == printFileAt([config EXCEPT !.autoPrint = auto], env, state)
          IN  unit' = [ fn |-> "printFile", state |-> state, autoPrint |-> auto,
                        env |-> env, result |-> r.result, invoked |-> r.invoked ]
    /\ UnitFrame

(* prepareInvoiceData(order) under a configured VAT rate. *)
CallPrepareInvoiceData ==
    /\ \E order \in UnitOrders \ {NullOrder}, rate \in UnitRates :
          unit' = [ fn |-> "prepareInvoiceData", order |-> order, rate |-> rate,
                    data |-> prepareInvoiceData(order, [config EXCEPT !.vatRate = rate]) ]
    /\ UnitFrame

NextUnit == CallGenerateInvoice \/ CallPrintFile \/ CallPrepareInvoiceData

SpecUnit == InitOverlap /\ [][NextUnit]_vars

NextAux == Next \/ DailyReport \/ WeeklyReport \/ CleanupReports

SpecAux == InitOverlap /\ [][NextAux]_vars

(***************************************************************************)
(* The scheduler of order-tracker: start() validates the polling interval, *)
(* schedules the cron job `*/N * * * *` and the startup timeout of 5       *)
(* seconds; stop() destroys the cron job.  The clock counts wall-clock     *)
(* minutes; a cycle is taken to end within the minute in which it began.   *)
(***************************************************************************)

(* POLLING_INTERVAL_MINUTES as the environment holds it: unset (or not a
   number), or an integer *)
PollingEnv ==
    {[set |-> FALSE, value |-> 0]}
        \cup { [set |-> TRUE, value |-> v] : v \in {-1, 0, 1, 5, 7, 90} }

(* parseIntWithDefault(process.env.X, defaultValue) *)
parseIntWithDefault(env, defaultValue) ==
    IF env.set THEN env.value ELSE defaultValue

(* variant: only a missing interval is refused *)
invalidIntervalZeroOnly(n) == n = 0

(* if (!config.pollingIntervalMinutes || config.pollingIntervalMinutes < 1) *)
invalidInterval(n) == n = 0 \/ n < 1

(* The minutes the expression `*/n * * * *` matches: those minutes of the
   hour, counted from 0, that n divides. *)
cronMatches(t, n) == (t % 60) % n = 0

(* the first matching minute after `now` *)
nextFire(now, n) ==
    CHOOSE t \in (now + 1)..(now + 60) :
        /\ cronMatches(t, n)
        /\ \A u \in (now + 1)..(t - 1) : ~cronMatches(u, n)

(* what the scheduler actions leave alone when no cycle begins *)
SchedFrame ==
    UNCHANGED << emitted, config, remote, ledgerFile, pdfFiles, pc, cycles, processedOrders,
                 loaded, retries, attempts, only503, delays, lastFailure, response,
                 newOrders, idx, done, wrote, rendered, committed, torn, lastExit,
                 rivalPc, rivalOrders, reports, unit >>

(* startApplication calls orderTracker.start(): an invalid interval or a
   rejected cron expression throws, and the catch of startApplication calls
   process.exit(1); otherwise the cron job and the startup timeout are
   scheduled.  Whether cron.validate accepts a step above 59 depends on the
   version of node-cron: both outcomes are possible. *)
Start ==
    /\ sched.phase = "boot"
    /\ LET n == parseIntWithDefault(sched.env, 5)
       IN  \E valid \in (IF n > 59 THEN BOOLEAN ELSE {TRUE}) :
              IF invalidInterval(n) \/ ~valid
              THEN sched' = [sched EXCEPT !.phase = "exited", !.exitCode = 1,
                                          !.interval = n]
              ELSE sched' = [sched EXCEPT !.phase = "running", !.interval = n,
                                          !.cronJob = TRUE, !.startup = "pending"]
    /\ SchedFrame

(* The cron job fires at the next minute its expression matches and its
   callback calls processOrders.  The startup timeout fires 5 seconds after
   start, so before any minute later than the one after the start. *)
CronFire ==
    /\ sched.phase = "running"
    /\ sched.cronJob
    /\ LET t == nextFire(sched.now, sched.interval)
       IN  /\ sched.startup = "pending" => t <= StartMinute + 1
           /\ sched' = [sched EXCEPT !.now = t, !.fires = Append(@, t)]
    /\ processOrdersEntry

(* The startup timeout fires and its callback calls processOrders. *)
StartupRun ==
    /\ sched.phase = "running"
    /\ sched.startup = "pending"
    /\ sched' = [sched EXCEPT !.startup = "ran", !.startupAt = sched.now]
    /\ processOrdersEntry

(* stop(): if (cronJob) { cronJob.destroy(); cronJob = null; } *)
Stop ==
    /\ sched.phase = "running"
    /\ sched.cronJob
    /\ sched' = [sched EXCEPT !.cronJob = FALSE, !.stopped = TRUE]
    /\ SchedFrame

InitSched ==
    /\ config = Config(1, TRUE, TRUE, TRUE)
    /\ remote = RemoteOverlap
    /\ ledgerFile = FileMissing
    /\ InitCycle
    /\ \E env \in PollingEnv :
          sched = [ env |-> env, phase |-> "boot", exitCode |-> -1, interval |-> 0,
                    cronJob |-> FALSE, startup |-> "none", startupAt |-> StartMinute,
                    now |-> StartMinute, fires |-> <<>>, stopped |-> FALSE ]

NextSched ==
    Start \/ CronFire \/ StartupRun \/ Stop \/ FetchOk \/ FetchFail \/ Resume \/ ProcessOrder

SpecSched == InitSched /\ [][NextSched]_vars

(***************************************************************************)
(* The digests: sendDailyReport and sendWeeklyReport as the cron callbacks *)
(* of start() call them.  `total` is the number of orders the generated    *)
(* report counts (the success lines of the day in logs/app.log, or the     *)
(* orders of the week's daily reports).                                    *)
(***************************************************************************)

(* what the run of a digest meets: the source of the report (the log file,
   the reports directory) is missing or cannot be read, the report file
   cannot be written, the SMTP server refuses the mail *)
DigestEnv == {"ok", "missing", "read error", "write error", "smtp error"}

(* the counts of the generated report *)
DigestTotals == {0, 1}

(* variant: the catch block throws the error again *)
digestCatchRethrow == [threw |-> TRUE, sent |-> FALSE, wrote |-> FALSE, logged |-> TRUE]

(* catch (error) { logger.error('Failed to send ... report:', error); } *)
digestCatch == [threw |-> FALSE, sent |-> FALSE, wrote |-> FALSE, logged |-> TRUE]

(* what the digests leave alone: everything but the reports directory *)
DigestFrame ==
    UNCHANGED << sched, emitted, config, remote, ledgerFile, pdfFiles, pc, cycles,
                 processedOrders, loaded, retries, attempts, only503, delays,
                 lastFailure, response, newOrders, idx, done, wrote, rendered,
                 committed, torn, lastExit, rivalPc, rivalOrders >>

(* sendDailyReport(force) / sendWeeklyReport(force): whether it threw,
   whether a mail was sent, whether the report file was written, whether an
   error was logged. *)
sendReport(c, env, total, force) ==
    LET count == IF env = "missing" THEN 0 ELSE total
    IN
    IF ~c.smtpUser \/ ~c.notificationEmail
    THEN [threw |-> FALSE, sent |-> FALSE, wrote |-> FALSE, logged |-> FALSE]
    ELSE IF env \in {"read error", "write error"}
    THEN digestCatch
    ELSE IF count = 0 /\ ~force
    THEN [threw |-> FALSE, sent |-> FALSE, wrote |-> env # "missing", logged |-> FALSE]
    ELSE [threw |-> FALSE, sent |-> env # "smtp error", wrote |-> env # "missing",
          logged |-> env = "smtp error"]

SendReport(kind, env, total, force) ==
          LET r == sendReport(config, env, total, force)
          IN  /\ unit' = [ fn |-> "sendReport", kind |-> kind, env |-> env,
                           total |-> total, force |-> force, threw |-> r.threw,
                           sent |-> r.sent, logged |-> r.logged ]
              /\ reports' = IF r.wrote THEN reports \cup {kind} ELSE reports

(* cron '0 9 * * *' *)
SendDailyReport ==
    /\ \E env \in DigestEnv, total \in DigestTotals, force \in BOOLEAN :
          SendReport("daily", env, total, force)
    /\ DigestFrame

(* cron '0 9 * * 1' *)
SendWeeklyReport ==
    /\ \E env \in DigestEnv, total \in DigestTotals, force \in BOOLEAN :
          SendReport("weekly", env, total, force)
    /\ DigestFrame

InitDigest ==
    /\ config \in { Config(1, TRUE, user, email) : user \in BOOLEAN, email \in BOOLEAN }
    /\ remote = { <<OrderA>> }
    /\ ledgerFile = FileMissing
    /\ InitProcess

NextDigest == Next \/ SendDailyReport \/ SendWeeklyReport

SpecDigest == InitDigest /\ [][NextDigest]_vars

(***************************************************************************)
(* Properties.                                                             *)
(***************************************************************************)
Has(steps, step) == step \in Range(steps)

Number(rec) == rec.order.orderNumber

InLedger(n) == n \in Range(getProcessedOrders(ledgerFile))

(* generateInvoice was called for the record's order and threw *)
RenderFailed(rec) == Has(rec.steps, "render") /\ ~Has(rec.steps, "rendered")

(* printFile was called with auto-print on and threw *)
PrintFailed(rec) == Has(rec.steps, "print") /\ ~Has(rec.steps, "printed")

(* saveProcessedOrders was called and its write failed *)
WriteFailed(rec) == Has(rec.steps, "save") /\ ~Has(rec.steps, "saved")

(* every step of the sub-sequence succeeded, the ledger write included *)
AllOk(rec) == Has(rec.steps, "saved") /\ Has(rec.steps, "success")

(* the step is one iteration of the for loop; its record is the last of done' *)
OrderStep == pc = "process" /\ Len(done') = Len(done) + 1

NewRecord == done'[Len(done')]

CycleOver == pc = "idle" /\ cycles > 0 /\ Len(newOrders) > 0

(* C1: once generateInvoice has succeeded for an order number, no later
   sub-sequence (in this or any later cycle) alerts, notifies, renders or
   prints for that order number again. *)
C1_AtMostOnce ==
    [][ OrderStep =>
          (Number(NewRecord) \in rendered =>
              /\ ~Has(NewRecord.steps, "alert")
              /\ ~Has(NewRecord.steps, "notify")
              /\ ~Has(NewRecord.steps, "render")
              /\ ~Has(NewRecord.steps, "print")) ]_vars

(* C2: an order whose number is in the array loaded at the start of the cycle
   is skipped without alert, notification, render, print or ledger write, and
   a cycle whose fetched orders are all in the loaded array performs no ledger
   write and leaves the persisted array as loaded. *)
C2_DedupShortCircuit ==
    /\ \A k \in 1..Len(done) :
          Number(done[k]) \in Range(loaded) => done[k].steps = <<"seen">>
    /\ (\A k \in 1..Len(newOrders) : newOrders[k].orderNumber \in Range(loaded))
          => /\ ~wrote
             /\ getProcessedOrders(ledgerFile) = loaded
             /\ processedOrders = loaded

C2_Witness ==
    /\ pc = "idle"
    /\ cycles >= 2
    /\ Len(done) >= 1
    /\ Len(done) = Len(newOrders)
    /\ \A k \in 1..Len(done) :
          Number(done[k]) \in Range(loaded) /\ done[k].steps = <<"seen">>
    /\ InLedger("A")

(* C3: when auto-print is on and printFile fails for an order whose invoice
   rendered, the order number is still pushed and committed in that
   sub-sequence. *)
C3_PrintFailureNonFatal ==
    \A k \in 1..Len(done) :
       (Has(done[k].steps, "rendered") /\ PrintFailed(done[k]))
          => /\ Has(done[k].steps, "push")
             /\ Has(done[k].steps, "save")
             /\ Number(done[k]) \in Range(processedOrders)

(* C4: a sub-sequence whose generateInvoice call throws performs no print,
   no push and no save, leaves the in-memory array and the ledger file as
   they were, attempts the error email when SMTP user and recipient are
   configured, and the loop goes on with the next order of the batch. *)
C4_RenderFailureAbortsOrder ==
    [][ (OrderStep /\ RenderFailed(NewRecord)) =>
          /\ ~Has(NewRecord.steps, "print")
          /\ ~Has(NewRecord.steps, "push")
          /\ ~Has(NewRecord.steps, "save")
          /\ processedOrders' = processedOrders
          /\ ledgerFile' = ledgerFile
          /\ wrote' = wrote
          /\ ((config.smtpUser /\ config.notificationEmail)
                 => Has(NewRecord.steps, "email"))
          /\ idx' = idx + 1
          /\ (idx < Len(newOrders) => pc' = "process") ]_vars

C4_Witness ==
    /\ config.smtpUser /\ config.notificationEmail /\ config.autoPrint
    /\ Len(done) >= 2
    /\ RenderFailed(done[1])
    /\ Has(done[1].steps, "email")
    /\ ~InLedger(Number(done[1]))
    /\ AllOk(done[2])

(* C5: every order of the batch gets its sub-sequence whatever happened to
   the orders before it: a finished cycle has handled every position; every
   order whose own steps all succeeded is in the persisted ledger; and an
   unseen order whose only sub-sequence failed to render is not. *)
C5_OrderIsolation ==
    /\ pc = "process" => (Len(done) = idx - 1 /\ idx <= Len(newOrders))
    /\ CycleOver =>
          /\ Len(done) = Len(newOrders)
          /\ \A k \in 1..Len(done) :
                /\ AllOk(done[k]) => InLedger(Number(done[k]))
                /\ ( /\ RenderFailed(done[k])
                     /\ Number(done[k]) \notin Range(loaded)
                     /\ \A j \in 1..Len(done) : Number(done[j]) = Number(done[k]) => j = k )
                   => ~InLedger(Number(done[k]))

C5_Witness ==
    /\ CycleOver
    /\ newOrders = <<OrderA, OrderB, OrderC>>
    /\ loaded = <<>>
    /\ AllOk(done[1])
    /\ RenderFailed(done[2])
    /\ AllOk(done[3])
    /\ ledgerFile = FileArray(<<"A", "C">>)

(* C6: at the end of a cycle, an order whose render succeeded in that cycle
   is in the persisted ledger, whatever the print outcome was (sub-sequences
   whose ledger write failed set aside). *)
C6_RenderedIsProcessed ==
    CycleOver =>
       \A k \in 1..Len(done) :
          (Has(done[k].steps, "rendered") /\ ~WriteFailed(done[k]))
             => InLedger(Number(done[k]))

(* C7: an order with a line item of negative unit price or negative quantity
   never renders, leaves no PDF artifact and is never committed. *)
HasNegativeItem(order) ==
    \E k \in 1..Len(order.lineItems) :
       order.lineItems[k].unitPrice < 0 \/ order.lineItems[k].quantity < 0

C7_FailClosedValidation ==
    \A k \in 1..Len(done) :
       HasNegativeItem(done[k].order)
          => /\ ~Has(done[k].steps, "rendered")
             /\ Number(done[k]) \notin pdfFiles
             /\ Number(done[k]) \notin Range(processedOrders)
             /\ ~InLedger(Number(done[k]))

(* C8: an order with no line items (or no lineItems array) gets no sound
   alert, no desktop notification, no render and no print, and is never
   persisted. *)
NoLineItems(order) == ~order.hasLineItems \/ Len(order.lineItems) = 0

C8_EmptyOrderRejected ==
    \A k \in 1..Len(done) :
       NoLineItems(done[k].order)
          => /\ ~Has(done[k].steps, "alert")
             /\ ~Has(done[k].steps, "notify")
             /\ ~Has(done[k].steps, "rendered")
             /\ ~Has(done[k].steps, "print")
             /\ ~InLedger(Number(done[k]))

(* C9: every record getNewOrders returns has a non-empty orderNumber, no
   record without one gets an alert, notification, render, print or commit,
   and the ledger never holds an empty order number. *)
Structural(order) == ~order.isNull /\ order.orderNumber # ""

C9_NoIdNeverDownstream ==
    /\ \A k \in 1..Len(newOrders) : Structural(newOrders[k])
    /\ \A k \in 1..Len(done) : Structural(done[k].order)
    /\ ~InLedger("")
    /\ "" \notin Range(processedOrders)
    /\ "" \notin rendered \cup pdfFiles

C9_Witness ==
    /\ CycleOver
    /\ \E k \in 1..Len(response) : ~Structural(response[k])
    /\ Len(newOrders) = Len(response) - 1
    /\ Len(done) = Len(newOrders)
    /\ \E k \in 1..Len(done) : AllOk(done[k])

(* C10: a fetch whose every attempt returned 503 has made exactly
   config.maxRetries + 1 attempts when it returns, and returns an empty
   array. *)
C10_RetryBound ==
    (pc = "fetched" /\ attempts >= 1 /\ retries = attempts /\ only503)
       => /\ attempts = config.maxRetries + 1
          /\ newOrders = <<>>


(* a step that starts a cycle: the ledger is loaded *)
LoadStep == pc = "idle" /\ cycles' = cycles + 1

(* C11: when a fetch attempt fails with 401, 403 or 404, getNewOrders makes
   no further attempt and waits no backoff delay after it (the only delays
   are those of earlier attempts, so a first attempt that fails this way is
   the only request of the cycle), and it returns the empty array. *)
C11_NonRetryableStops ==
    [][ /\ (pc = "fetch" /\ attempts' = attempts + 1
              /\ lastFailure' \in {"401", "403", "404"})
           => /\ pc' = "fetched"
              /\ newOrders' = <<>>
              /\ delays' = delays
              /\ attempts' = Len(delays') + 1
        /\ (pc = "fetched" /\ lastFailure \in {"401", "403", "404"})
           => /\ attempts' = 0
              /\ pc' = "idle" ]_vars

C11_Witness ==
    /\ pc = "fetched"
    /\ lastFailure = "404"
    /\ attempts = 1
    /\ delays = <<>>
    /\ newOrders = <<>>

(* C12: when every fetch attempt of a cycle fails, getNewOrders returns the
   empty array; the cycle then performs no alert, notification, render,
   print or commit, processOrders returns, and the next tick can start a
   cycle. *)
C12_FetchOutageIsEmptyCycle ==
    /\ [][ (pc = "fetched" /\ lastFailure # "")
              => /\ newOrders = <<>>
                 /\ pc' = "idle"
                 /\ done' = <<>>
                 /\ ledgerFile' = ledgerFile
                 /\ pdfFiles' = pdfFiles
                 /\ rendered' = rendered
                 /\ wrote' = FALSE ]_vars
    /\ [](  (pc = "idle" /\ lastFailure # "" /\ cycles < MaxCycles)
              => ENABLED Tick )

C12_Witness ==
    /\ pc = "idle"
    /\ lastFailure = "503"
    /\ cycles = 1
    /\ done = <<>>
    /\ wrote = FALSE
    /\ rendered = {}

(* C13: on the first run, when the ledger file does not exist, the load
   returns the empty array and leaves a ledger file that holds the empty
   array, and the cycle goes on to the fetch. *)
C13_FirstRunCreatesLedger ==
    [][ (LoadStep /\ ledgerFile.kind = "missing")
           => /\ loaded' = <<>>
              /\ processedOrders' = <<>>
              /\ ledgerFile' = [kind |-> "array", data |-> <<>>]
              /\ pc' = "fetch" ]_vars

C13_Witness ==
    /\ cycles = 1
    /\ pc = "fetch"
    /\ attempts = 0
    /\ loaded = <<>>
    /\ ledgerFile = [kind |-> "array", data |-> <<>>]

(* C14: when the ledger file is unreadable, is not valid JSON or does not
   hold an array, the load returns the empty array and recreates the file
   as an empty ledger before the cycle proceeds. *)
C14_CorruptLedgerRecreated ==
    [][ (LoadStep /\ ledgerFile.kind \in {"corrupt", "nonarray"})
           => /\ loaded' = <<>>
              /\ pc' = "fetch"
              /\ ledgerFile' = [kind |-> "array", data |-> <<>>] ]_vars

(* the step is a signal that ends the process between two steps of a cycle *)
ShutdownStep == pc # "idle" /\ lastExit' = "signal"

(* C15: within a cycle the ledger file holds the number of order k once the
   commit step of order k has returned, before any step of order k+1; a
   signal between two orders leaves the file as it is; and while no ledger
   write has been cut short, an order whose commit step has returned is
   skipped whenever it is fetched again, also after a restart. *)
C15_PerOrderDurableCommit ==
    [][ /\ (OrderStep /\ Has(NewRecord.steps, "save"))
           => /\ ledgerFile'.kind = "array"
              /\ Number(NewRecord) \in Range(ledgerFile'.data)
        /\ ShutdownStep => ledgerFile' = ledgerFile
        /\ (OrderStep /\ ~torn /\ Number(NewRecord) \in committed)
           => NewRecord.steps = <<"seen">> ]_vars

(* C16: when the write of the ledger file fails during the commit of an
   order, the order is not reported as successfully processed. *)
C16_WriteFailureEscalated ==
    \A k \in 1..Len(done) :
       WriteFailed(done[k]) => ~Has(done[k].steps, "success")

(* C17: whenever the ledger file changes while orders are processed, also
   when the process is ended during the commit, the file then holds the
   complete array with the new order number appended. *)
C17_AtomicLedgerRewrite ==
    [][ (pc = "process" /\ ledgerFile' # ledgerFile)
           => /\ ledgerFile'.kind = "array"
              /\ ledgerFile'.data
                   = Append(processedOrders, newOrders[idx].orderNumber) ]_vars

(* C18: at most one invocation of processOrders is running at any time. *)
C18_SingleActiveCycle == ~(pc # "idle" /\ rivalPc # "idle")

NoDuplicates(seq) ==
    \A i \in 1..Len(seq) : \A j \in 1..Len(seq) : seq[i] = seq[j] => i = j

(* C19: the ledger file and the in-memory array never hold an order number
   twice; an order whose number is already in the array (loaded from the
   file, or pushed earlier in the same batch) is skipped without an error
   and leaves the array and the file as they are. *)
C19_IdempotentLedger ==
    /\ [](NoDuplicates(ledgerFile.data) /\ NoDuplicates(processedOrders))
    /\ [][ (OrderStep /\ Number(NewRecord) \in Range(processedOrders))
              => /\ NewRecord.steps = <<"seen">>
                 /\ processedOrders' = processedOrders
                 /\ ledgerFile' = ledgerFile ]_vars

C19_Witness ==
    /\ newOrders = <<OrderA, OrderA>>
    /\ Len(done) = 2
    /\ loaded = <<>>
    /\ AllOk(done[1])
    /\ done[2].steps = <<"seen">>
    /\ ledgerFile.data = <<"A">>

(* C20: a failure of a notification channel (sound alert, desktop popup,
   email) stays inside the channel: it never ends the process, so the
   render, print and commit of the order go on. *)
C20_ChannelIsolation == lastExit # "uncaught"

(* a step of one of the report tasks: the reports directory changes *)
AuxStep == reports' # reports

(* C21: a step of the daily digest, the weekly digest or the report cleanup,
   at any point of a processing cycle, leaves the ledger file, the
   in-memory array and the position of the cycle as they are. *)
C21_AuxTasksLeaveLedger ==
    [][ AuxStep => /\ ledgerFile' = ledgerFile
                   /\ processedOrders' = processedOrders
                   /\ pc' = pc
                   /\ idx' = idx
                   /\ done' = done ]_vars

C21_Witness ==
    /\ pc = "process"
    /\ idx = 2
    /\ "A" \in Range(ledgerFile.data)
    /\ reports = {"weekly"}

(* the position of a step in the steps of one order *)
Pos(steps, step) == CHOOSE i \in 1..Len(steps) : steps[i] = step

(* when both steps occurred, a occurred before b *)
Before(steps, a, b) ==
    (Has(steps, a) /\ Has(steps, b)) => Pos(steps, a) < Pos(steps, b)

(* C22: the steps of an unseen order occur in the order sound alert, desktop
   notification, render, print (only when auto-print is on), commit, success
   log; the commit is preceded by the successful render of the order and the
   success log by the commit step. *)
C22_StepOrder ==
    \A k \in 1..Len(done) :
       LET st == done[k].steps
       IN  /\ Before(st, "alert", "notify")
           /\ Before(st, "notify", "render")
           /\ Before(st, "render", "print")
           /\ Before(st, "print", "push")
           /\ Before(st, "push", "success")
           /\ Has(st, "render") => Has(st, "notify")
           /\ (Has(st, "render") /\ config.soundAlertEnabled) => Has(st, "alert")
           /\ Has(st, "print") => (config.autoPrint /\ Has(st, "rendered"))
           /\ Has(st, "push")
                => /\ Has(st, "rendered")
                   /\ Pos(st, "render") < Pos(st, "rendered")
                   /\ Pos(st, "rendered") < Pos(st, "push")
           /\ Has(st, "success")
                => /\ Has(st, "push") /\ Has(st, "save")
                   /\ Pos(st, "push") < Pos(st, "save")
                   /\ Pos(st, "save") < Pos(st, "success")

C22_Witness ==
    /\ Len(done) >= 1
    /\ done[1].steps = << "alert", "notify", "render", "rendered", "print", "printed",
                          "push", "save", "saved", "success" >>

(* C23: with auto-print off the print subsystem is never invoked, and an
   order whose render succeeded goes on to the commit without an error: its
   number is pushed, the ledger is saved and the success is logged. *)
C23_PrintDisabledNoOp ==
    ~config.autoPrint
       => \A k \in 1..Len(done) :
             LET st == done[k].steps
             IN  /\ ~Has(st, "print")
                 /\ Has(st, "rendered")
                      => /\ Has(st, "push") /\ Has(st, "save") /\ Has(st, "success")
                         /\ ~Has(st, "failed")
                         /\ Number(done[k]) \in Range(processedOrders)
                         /\ Has(st, "saved") => InLedger(Number(done[k]))

C23_Witness ==
    /\ ~config.autoPrint
    /\ Len(done) >= 1
    /\ done[1].steps = << "alert", "notify", "render", "rendered",
                          "push", "save", "saved", "success" >>
    /\ InLedger(Number(done[1]))

(* the sub-sequence has run to its end: the order was skipped, or its
   success was logged, or its failure was handled *)
Finished(steps) ==
    /\ Len(steps) > 0
    /\ \/ steps[Len(steps)] \in {"invalid", "seen", "success"}
       \/ /\ Has(steps, "failed")
          /\ steps[Len(steps)]
               = (IF config.smtpUser /\ config.notificationEmail THEN "email" ELSE "failed")

(* C24: the orders of a batch are handled one after the other in the order
   of the batch: when the sub-sequence of the order at position idx starts,
   those of all earlier positions have finished (commit or failure handling
   included), and a later step never adds to an earlier sub-sequence. *)
C24_SequentialOrders ==
    /\ [](  /\ pc = "process" => Len(done) = idx - 1
            /\ \A k \in 1..Len(done) :
                  done[k].order = newOrders[k] /\ Finished(done[k].steps) )
    /\ [][ OrderStep => /\ done' = Append(done, NewRecord)
                        /\ NewRecord.order = newOrders[idx]
                        /\ idx' = idx + 1 ]_vars

C24_Witness ==
    /\ pc = "process"
    /\ idx = 3
    /\ Len(newOrders) = 3
    /\ Has(done[1].steps, "success")
    /\ Has(done[2].steps, "failed")

(* C25: for each unseen order the renderer is invoked first, then the print
   dispatcher, then the notification fan-out (sound, desktop), and only then
   is the number committed. *)
C25_DataFlowAsStated ==
    \A k \in 1..Len(done) :
       LET st == done[k].steps
       IN  /\ Before(st, "render", "alert")
           /\ Before(st, "render", "notify")
           /\ Before(st, "print", "alert")
           /\ Before(st, "print", "notify")
           /\ Before(st, "alert", "push")
           /\ Before(st, "notify", "push")

(* C25, amended: for each unseen order the notification fan-out (sound,
   desktop) is invoked first, then the renderer, then the print dispatcher,
   and only then is the number committed. *)
C25_DataFlowNotifyFirst ==
    \A k \in 1..Len(done) :
       LET st == done[k].steps
       IN  Has(st, "render")
             => /\ Has(st, "notify") /\ Pos(st, "notify") < Pos(st, "render")
                /\ Has(st, "alert") => Pos(st, "alert") < Pos(st, "notify")
                /\ Has(st, "print") => Pos(st, "render") < Pos(st, "print")
                /\ Has(st, "push")
                     => /\ Pos(st, "render") < Pos(st, "push")
                        /\ Has(st, "print") => Pos(st, "print") < Pos(st, "push")

C25_Witness ==
    \E k \in 1..Len(done) :
       /\ config.autoPrint
       /\ Has(done[k].steps, "printed")
       /\ Has(done[k].steps, "push")
       /\ Pos(done[k].steps, "notify") < Pos(done[k].steps, "render")
       /\ Pos(done[k].steps, "print") < Pos(done[k].steps, "push")

(* C26: generateInvoice returns a path only when the file at the path is a
   complete, non-empty PDF; whenever it fails, no zero-byte and no truncated
   file is left at the path of the order. *)
C26_ArtifactIntegrity ==
    unit.fn = "generateInvoice"
       => /\ unit.ok => unit.after = "full"
          /\ ~unit.ok => unit.after \notin {"empty", "partial"}

C26_Witness ==
    /\ unit.fn = "generateInvoice"
    /\ unit.order = OrderA
    /\ unit.env \in {"partial", "empty"}
    /\ unit.before = "full"
    /\ ~unit.ok
    /\ unit.after = "absent"

(* C27: with auto-print on, printFile calls the print subsystem only for a
   file that exists and is not empty; for a missing or empty file the print
   subsystem is not called and printFile throws. *)
C27_PrintValidatesArtifact ==
    unit.fn = "printFile"
       => /\ unit.invoked => (unit.autoPrint /\ unit.state \in {"partial", "full"})
          /\ (unit.autoPrint /\ unit.state \in {"absent", "empty"})
               => (~unit.invoked /\ unit.result = "threw")

C27_Witness ==
    /\ unit.fn = "printFile"
    /\ unit.autoPrint
    /\ unit.state = "empty"
    /\ ~unit.invoked
    /\ unit.result = "threw"

(* C28: the delay waited before the k-th retry is min(1000 * 2^k, 10000) ms,
   so the delays do not decrease and none exceeds 10 seconds; every failed
   attempt but the last is followed by one delay, and no delay follows the
   final failed attempt or a 401, 403 or 404 failure. *)
C28_BackoffSchedule ==
    /\ \A k \in 1..Len(delays) :
          /\ delays[k] = Min(1000 * Pow2(k), 10000)
          /\ delays[k] <= 10000
          /\ k > 1 => delays[k - 1] <= delays[k]
    /\ pc = "fetch" => Len(delays) = retries
    /\ (pc = "fetched" /\ lastFailure # "") => Len(delays) = retries - 1

C28_Witness ==
    /\ pc = "fetched"
    /\ lastFailure = "503"
    /\ attempts = 6
    /\ delays = <<2000, 4000, 8000, 10000, 10000>>

(* C29: for an order whose line items have a positive quantity q and a
   non-negative unit price p, under every VAT rate r from 0 to 100 percent
   (0 included), each item has net amount p * q, tax amount net * r and total
   net + tax, and the invoice totals are the sums of the item amounts
   (tax and totals in hundredths). *)
C29_DerivedAmounts ==
    ( /\ unit.fn = "prepareInvoiceData"
      /\ unit.order.hasLineItems
      /\ \A k \in 1..Len(unit.order.lineItems) :
            unit.order.lineItems[k].quantity > 0 /\ unit.order.lineItems[k].unitPrice >= 0 )
       => /\ ~unit.data.threw
          /\ Len(unit.data.items) = Len(unit.order.lineItems)
          /\ \A k \in 1..Len(unit.data.items) :
                LET it == unit.data.items[k]
                    li == unit.order.lineItems[k]
                IN  /\ it.net_amount = li.unitPrice * li.quantity
                    /\ it.vat_amount = it.net_amount * unit.rate
                    /\ it.total_amount = it.net_amount * 100 + it.vat_amount
          /\ unit.data.NET_TOTAL
               = SumSeq([k \in 1..Len(unit.data.items) |-> unit.data.items[k].net_amount])
          /\ unit.data.VAT_TOTAL
               = SumSeq([k \in 1..Len(unit.data.items) |-> unit.data.items[k].vat_amount])
          /\ unit.data.GRAND_TOTAL = unit.data.NET_TOTAL * 100 + unit.data.VAT_TOTAL

(* C30: the sound alert is fire-and-forget: the desktop notification follows
   the start of the alert at once, and what happens to the alert process
   after playNewOrderAlert has returned, its failure included, changes
   nothing in the cycle: the position, the batch, the records and the
   in-memory array stay as they are. *)
C30_AlertFireAndForget ==
    /\ [](\A k \in 1..Len(done) :
             Has(done[k].steps, "alert")
                => /\ Len(done[k].steps) > Pos(done[k].steps, "alert")
                   /\ done[k].steps[Pos(done[k].steps, "alert") + 1] = "notify")
    /\ [][ lastExit' = "uncaught"
              => /\ pc' = pc
                 /\ idx' = idx
                 /\ newOrders' = newOrders
                 /\ done' = done
                 /\ processedOrders' = processedOrders ]_vars

(* a cycle begins *)
CycleBegins == cycles' = cycles + 1

(* C31 as stated: when the polling interval is missing, zero or less than
   1, start() leaves nothing scheduled, the process exits with a non-zero
   code and no cycle runs. *)
C31_MissingOrInvalidIntervalFatal ==
    (sched.phase # "boot" /\ (~sched.env.set \/ sched.env.value < 1))
        => /\ sched.phase = "exited"
           /\ sched.exitCode > 0
           /\ ~sched.cronJob
           /\ sched.startup = "none"
           /\ cycles = 0

(* C31 amended: when the polling interval is set to zero or to less than
   1, start() throws before the cron job and the startup run are scheduled,
   the process exits with a non-zero code and no cycle ever runs; a missing
   interval is replaced by the default of 5 minutes and the service starts. *)
C31_InvalidIntervalFatal ==
    /\ (sched.phase # "boot" /\ sched.env.set /\ sched.env.value < 1)
          => /\ sched.phase = "exited"
             /\ sched.exitCode > 0
             /\ ~sched.cronJob
             /\ sched.startup = "none"
             /\ sched.fires = <<>>
             /\ cycles = 0
             /\ pc = "idle"
    /\ (sched.phase # "boot" /\ ~sched.env.set)
          => /\ sched.phase = "running"
             /\ sched.interval = 5

C31_Witness ==
    /\ sched.env.set
    /\ sched.env.value = 0
    /\ sched.phase = "exited"
    /\ sched.exitCode = 1

(* C32: the cron job fires at a fixed interval: any two consecutive fires
   are exactly pollingIntervalMinutes apart; and exactly one run is
   triggered by the startup timeout, within the first seconds after
   start(). *)
C32_FixedIntervalAndStartupRun ==
    /\ \A k \in 1..(Len(sched.fires) - 1) :
          sched.fires[k + 1] - sched.fires[k] = sched.interval
    /\ sched.startup = "ran" => sched.startupAt <= StartMinute + 1
    /\ sched.phase = "running" => sched.startup \in {"pending", "ran"}

(* the run of a digest *)
DigestStep == unit'.fn = "sendReport" /\ unit' # unit

(* C33: sendDailyReport and sendWeeklyReport never throw to the scheduler;
   a failure of the generation or of the mail is logged; the run of a
   digest changes nothing of the order-processing cycle, of the ledger or
   of the scheduler; and no mail is sent when the SMTP user or the
   recipient is not configured, or when the report counts no order and the
   send is not forced. *)
C33_DigestIsolation ==
    /\ [](unit.fn = "sendReport"
            => /\ ~unit.threw
               /\ ( /\ unit.env \in {"read error", "write error", "smtp error"}
                    /\ config.smtpUser
                    /\ config.notificationEmail
                    /\ (unit.env = "smtp error" => unit.total > 0 \/ unit.force) )
                     => (unit.logged /\ ~unit.sent)
               /\ (~config.smtpUser \/ ~config.notificationEmail) => ~unit.sent
               /\ (unit.total = 0 /\ ~unit.force) => ~unit.sent)
    /\ [][ DigestStep
             => UNCHANGED << sched, config, remote, ledgerFile, pdfFiles, pc, cycles,
                             processedOrders, loaded, retries, attempts, only503,
                             delays, lastFailure, response, newOrders, idx, done,
                             wrote, rendered, committed, torn, lastExit >> ]_vars

C33_Witness ==
    /\ unit.fn = "sendReport"
    /\ unit.env = "smtp error"
    /\ unit.total = 1
    /\ unit.logged
    /\ ~unit.sent
    /\ pc = "process"

(* C34: a cycle is bounded and returns to idle: it makes at most
   config.maxRetries + 1 fetch attempts, handles each position of the
   fetched array at most once, and ends in the idle state once the last
   position is handled; nothing is thrown to the scheduler callback. *)
C34_CycleBounded ==
    /\ attempts <= config.maxRetries + 1
    /\ Len(done) <= Len(newOrders)
    /\ pc = "process" => idx <= Len(newOrders)
    /\ lastExit = ""

(* C35: the persisted ledger only grows: every identifier the ledger file
   holds before a step (a load, a commit, the start or the end of a cycle,
   a load that hit a read or parse error included) is held by the file
   after the step. *)
C35_LedgerMonotone ==
    [][ \A n \in Range(getProcessedOrders(ledgerFile)) :
           n \in Range(getProcessedOrders(ledgerFile')) ]_vars

(* the second invocation completes the sub-sequence of an order: it pushes
   the order number onto its array *)
RivalPush == rivalPc = "running" /\ Len(rivalOrders') = Len(rivalOrders) + 1

(* C36: when two invocations of processOrders overlap, the second one does
   not render an order the first one has rendered in its running cycle,
   and once both have returned every order number whose commit has
   completed is in the ledger file. *)
C36_OverlapSafety ==
    /\ []((pc = "idle" /\ rivalPc = "idle")
             => \A n \in committed : n \in Range(getProcessedOrders(ledgerFile)))
    /\ [][ (RivalPush /\ pc # "idle")
              => \A k \in 1..Len(done) :
                    Has(done[k].steps, "rendered")
                       => Number(done[k]) # rivalOrders'[Len(rivalOrders')] ]_vars

(* C37: for every order number the sound alert and the desktop notification
   are each emitted at most once over all cycles: a sub-sequence does not
   alert for a number alerted before, nor notify for a number notified
   before. *)
C37_AnnouncedOnce ==
    [][ OrderStep
          => /\ Has(NewRecord.steps, "alert") => Number(NewRecord) \notin emitted.alert
             /\ Has(NewRecord.steps, "notify") => Number(NewRecord) \notin emitted.notify ]_vars

(* an attempt of getNewOrders ends *)
AttemptStep == pc = "fetch" /\ attempts' = attempts + 1

(* C38: a failed attempt is followed by another attempt, while the retry
   budget remains, if and only if the failure is not an HTTP 401, 403 or
   404: other 4xx responses, 5xx responses, timeouts, connection and DNS
   errors and responses without a body are retried, after a delay; a
   response whose body is not an array ends the fetch at once with the
   empty array. *)
C38_RetryClassification ==
    [][ AttemptStep
          => /\ lastFailure' \notin {"", "non-array body"}
                  => /\ pc' = "fetch"
                          <=> /\ lastFailure' \notin {"401", "403", "404"}
                              /\ retries' <= maxRetries(config)
                     /\ pc' = "fetch" => Len(delays') = Len(delays) + 1
                     /\ pc' # "fetch" => (pc' = "fetched" /\ newOrders' = <<>>)
             /\ lastFailure' = "non-array body"
                  => /\ pc' = "fetched"
                     /\ newOrders' = <<>>
                     /\ retries' = retries
                     /\ delays' = delays ]_vars

C38_Witness ==
    /\ pc = "fetch"
    /\ attempts = 2
    /\ lastFailure = "no data"
    /\ Len(delays) = 2

(* C39: whenever the sub-sequence of an order logs 'Successfully processed
   order X' (the line the digests count) and increments the processed
   count, X is in the persisted ledger file at that moment. *)
C39_SuccessMeansPersisted ==
    [][ (OrderStep /\ Has(NewRecord.steps, "success"))
           => Number(NewRecord) \in Range(getProcessedOrders(ledgerFile')) ]_vars

(* C40: after stop() has returned no cycle begins. *)
C40_NoCycleAfterStop == [][ sched.stopped => ~CycleBegins ]_vars

====
